---- MODULE Spec2Model ----
(***************************************************************************)
(* A model of jaxlib/gpu/triton.cc: the kernel cache (GetKernel), the     *)
(* per-context function cache (Kernel::GetFunctionForContext), the bound  *)
(* call (KernelCall::Launch), the autotuner (AutotunedKernelCall) and the *)
(* call cache (GetKernelCall).                                            *)
(*                                                                         *)
(* The GPU driver is the environment.  A driver call that the code wraps  *)
(* in CUDA_RETURN_IF_ERROR may fail; which call fails is an input of the  *)
(* operation (a "fault").  Stream operations take effect on device memory *)
(* in the order they are enqueued.                                        *)
(***************************************************************************)
EXTENDS Integers, Sequences, FiniteSets, TLC

\* ------------------------------------------------------------- bounds
NumThreads == 2
NumStreams == 2
BufLen == 2
MaxByte == 2
MaxParams == 3
MaxModules == 3
MaxConfigs == 3
MaxAliases == 2
MaxTime == 2
MaxCalls == 2
MaxGets == 2
MaxTries == 5

\* ------------------------------------------------- program constants
kNumThreadsPerWarp == 32
kMaxStaticSharedMemBytes == 49152
kBenchmarkTimeMillis == 10
kMaxTimedIters == 100

Threads == 1..NumThreads
Streams == 1..NumStreams
Contexts == Streams
Bytes == 0..MaxByte

\* Device pointers the runtime may hand over: 16 is 16-byte aligned, 24 is
\* not.  Each addresses its own BufLen bytes.
Ptrs == {16, 24}

\* The context a stream belongs to (the driver's cuStreamGetCtx).
StreamCtx(s) == s

\* absl::Status: a code and the call it comes from.
OkStatus == [code |-> "Ok", at |-> "none"]
InternalError(at) == [code |-> "Internal", at |-> at]
InvalidArgumentError(at) == [code |-> "InvalidArgument", at |-> at]

\* The driver calls of a launch that may report an error.
LaunchFaults ==
  {"none", "cuMemsetD8Async", "cuStreamGetCtx", "cuCtxPushCurrent",
   "cuModuleLoadData", "cuModuleGetFunction", "cuCtxGetDevice",
   "cuDeviceGetAttribute_optin", "cuFuncSetCacheConfig",
   "cuDeviceGetAttribute_total", "cuFuncGetAttribute", "cuFuncSetAttribute",
   "cuLaunchKernel"}

\* ------------------------------------------------------------- state
VARIABLES
  \* device and driver
  mem,            \* device memory: pointer -> BufLen bytes
  ctx_stack,      \* per thread: the driver's current-context stack
  ctx_underflow,  \* per thread: a pop was issued that no push of the call matches
  \* Kernel objects
  shared_mem_bytes_,  \* per kernel
  kernel_output,      \* per kernel: the array argument the kernel writes, or 0
  functions_,         \* per kernel: context -> function (the module it is in)
  modules_,           \* per kernel: loaded modules (the context of each)
  func_configured,    \* per kernel: contexts whose function got the opt-in setup
  \* the call under test and its callers
  parameters_,    \* KernelCall::parameters_
  pc,             \* per thread: position
  stream_arg,     \* per thread: the stream of the call in progress
  buffers_arg,    \* per thread: the buffers of the call in progress
  result,         \* per thread: status the last call returned
  last_launch,    \* per thread: what the last KernelCall::Launch did
  did_launch,     \* per thread: the call issued a driver kernel launch
  ctx_entry,      \* per thread: ctx_stack when the call was entered
  mem_entry,      \* per thread: mem when the call was entered
  ncalls,         \* per thread: calls made
  \* AutotunedKernelCall
  configs_,               \* the configs left: description and kernel of each
  input_output_aliases_,  \* (input buffer idx, output buffer idx, size)
  autotune_once_,         \* absl::once_flag: "init", "running", "done"
  autotune_status_,
  at,               \* locals of the Autotune run in progress
  num_configs,      \* the configs the call was constructed with
  autotune_runs,    \* times the Autotune body was entered
  measured,         \* second pass: description and time of each benchmark
  events_live,      \* driver events created and not destroyed
  restores,         \* the copies the restore loop of Autotune issued
  did_autotune,     \* per thread: the call ran the call_once body
  did_bench,        \* per thread: the call ran a benchmark
  observed,         \* per thread: autotune_status_ as read after call_once
  \* GetKernel
  kernels,          \* the static map: entries of key and Kernel instance
  kernel_objects,   \* the Kernel instances made, in order of construction
  kernels_mutex,    \* the static mutex: its holder, or 0
  gk,               \* per thread: position, descriptor, image, result, calls
  gk_returned,      \* descriptor and instance of every successful GetKernel
  \* GetKernelCall
  kernel_calls,     \* the static map: entries of key and call object
  call_objects,     \* the call objects made, in order of construction
  gc_returned,      \* opaque, status and object of every GetKernelCall
  aborted,          \* a CHECK failed: the process is gone
  \* LaunchTritonKernel
  calls_mutex,      \* the static mutex of GetKernelCall: its holder, or 0
  ep_call,          \* per thread: the call object GetKernelCall returned
  status_handle,    \* per thread: XlaCustomCallStatus, "untouched" or message
  \* records of single operations
  kernel_entry,     \* per thread: functions_ and modules_ at Kernel::Launch
  dec               \* the decompression loop of GetKernelCall in progress

\* ------------------------------------------------------------ Kernel
\* Kernel objects.  A KernelCall holds one; an AutotunedKernelCall holds one
\* per config.
Kernels == 1..MaxConfigs

\* CU_DEVICE_ATTRIBUTE_MAX_SHARED_MEMORY_PER_BLOCK_OPTIN of the device of a
\* context: devices with and without more than 48 KiB to opt in to.
SharedOptin(context) == IF context % 2 = 1 THEN 49152 ELSE 101376

\* What an operation reads and writes of the driver and the Kernel objects:
\* mem, funcs (functions_), mods (modules_), conf (func_configured), the
\* calling thread's context stack, its depth at entry (base), the underflow
\* flag, the stream operations of the launch in progress (ops) and whether
\* a driver kernel launch was issued.
DevOf(t) ==
  [mem |-> mem, funcs |-> functions_, mods |-> modules_,
   conf |-> func_configured, stack |-> ctx_stack[t],
   base |-> Len(ctx_entry[t]), under |-> ctx_underflow[t],
   ops |-> <<>>, issued |-> FALSE, events |-> events_live]

\* cuCtxPushCurrent(context), succeeding.
PushCurrent(D, context) == [D EXCEPT !.stack = <<context>> \o @]

\* cuCtxPopCurrent(nullptr).  A pop below the depth at entry is a pop that
\* no push of this call matches.
PopCurrent(D) ==
  IF Len(D.stack) > D.base
  THEN [D EXCEPT !.stack = Tail(@)]
  ELSE [D EXCEPT !.under = TRUE,
                 !.stack = IF @ = <<>> THEN @ ELSE Tail(@)]

CtxRestorer_Leak(D, pushed) == D

\* absl::Cleanup ctx_restorer: runs on every exit after it is constructed.
\* `pushed` says whether the cleanup was constructed (the push succeeded).
CtxRestorer(D, pushed) == IF pushed THEN PopCurrent(D) ELSE D

\* The dynamic shared memory set-up of a new function (lines 114-149), after
\* the function was inserted into functions_.
SharedMemSetup(k, context, D, f) ==
  IF shared_mem_bytes_[k] <= kMaxStaticSharedMemBytes
  THEN [st |-> OkStatus, D |-> D]
  ELSE IF f = "cuCtxGetDevice"
  THEN [st |-> InternalError(f), D |-> D]
  ELSE IF f = "cuDeviceGetAttribute_optin"
  THEN [st |-> InternalError(f), D |-> D]
  ELSE IF shared_mem_bytes_[k] > SharedOptin(context)
  THEN [st |-> InvalidArgumentError("shared memory"), D |-> D]
  ELSE IF SharedOptin(context) > kMaxStaticSharedMemBytes
  THEN IF f \in {"cuFuncSetCacheConfig", "cuDeviceGetAttribute_total",
                 "cuFuncGetAttribute", "cuFuncSetAttribute"}
       THEN [st |-> InternalError(f), D |-> D]
       ELSE [st |-> OkStatus,
             D |-> [D EXCEPT !.conf[k] = @ \cup {context}]]
  ELSE [st |-> OkStatus, D |-> D]

\* Kernel::GetFunctionForContext, under the kernel's mutex_.  fn = 0: none.
GetFunctionForContext(k, context, D, f) ==
  IF D.funcs[k][context] # 0
  THEN [st |-> OkStatus, fn |-> D.funcs[k][context], D |-> D]
  ELSE IF f = "cuCtxPushCurrent"
  THEN [st |-> InternalError(f), fn |-> 0, D |-> CtxRestorer(D, FALSE)]
  ELSE LET D1 == PushCurrent(D, context) IN
  IF f = "cuModuleLoadData"
  THEN [st |-> InternalError(f), fn |-> 0, D |-> CtxRestorer(D1, TRUE)]
  ELSE LET D2 == [D1 EXCEPT !.mods[k] = Append(@, context)] IN
  IF f = "cuModuleGetFunction"
  THEN [st |-> InternalError(f), fn |-> 0, D |-> CtxRestorer(D2, TRUE)]
  ELSE LET function == Len(D2.mods[k])
           D3 == [D2 EXCEPT !.funcs[k][context] = function]
           r == SharedMemSetup(k, context, D3, f)
       IN [st |-> r.st,
           fn |-> IF r.st = OkStatus THEN function ELSE 0,
           D |-> CtxRestorer(r.D, TRUE)]

\* What a kernel does to device memory is the kernel's business: it leaves
\* memory alone (w = 0) or overwrites the buffer of its w-th array argument
\* with its output (never zero bytes here, to tell it from a zero-fill).
\* Which one is a property of the compiled kernel: kernel_output.
ArrayPtrs(params) ==
  LET idx == {i \in 1..Len(params) : params[i].kind = "array"}
      F[i \in 0..Len(params)] ==
        IF i = 0 THEN <<>>
        ELSE IF i \in idx THEN Append(F[i - 1], params[i].value)
        ELSE F[i - 1]
  IN F[Len(params)]

KernelRun(m, params, w) ==
  LET ptrs == ArrayPtrs(params)
  IN IF w = 0 \/ w > Len(ptrs) THEN m
     ELSE [m EXCEPT ![ptrs[w]] = [i \in 1..BufLen |-> MaxByte]]

\* Kernel::Launch.
KernelLaunch(k, stream, params, D, f) ==
  IF f = "cuStreamGetCtx" THEN [st |-> InternalError(f), D |-> D]
  ELSE LET context == StreamCtx(stream)
           r == GetFunctionForContext(k, context, D, f)
       IN IF r.st # OkStatus THEN [st |-> r.st, D |-> r.D]
          ELSE IF f = "cuLaunchKernel"
          THEN [st |-> InternalError(f), D |-> r.D]
          ELSE [st |-> OkStatus,
                D |-> [r.D EXCEPT
                         !.ops = Append(@, [op |-> "launch", ptr |-> 0,
                                            count |-> 0, kernel |-> k,
                                            function |-> r.fn,
                                            params |-> params,
                                            seen |-> r.D.mem]),
                         !.mem = KernelRun(@, params, kernel_output[k]),
                         !.issued = TRUE]]

\* -------------------------------------------------------- KernelCall
\* KernelCall::Parameter: an ArrayParameter or a ScalarParameter.
ArrayParameter(bytes_to_zero, ptr_must_be_divisible_by_16) ==
  [kind |-> "array", bytes_to_zero |-> bytes_to_zero,
   ptr_must_be_divisible_by_16 |-> ptr_must_be_divisible_by_16, value |-> 0]

ScalarParameter(value) ==
  [kind |-> "scalar", bytes_to_zero |-> 0,
   ptr_must_be_divisible_by_16 |-> FALSE, value |-> value]

AlignmentViolated_Unchecked(array, cu_ptr) == FALSE

\* The check of lines 261-262.
AlignmentViolated(array, cu_ptr) ==
  array.ptr_must_be_divisible_by_16 /\ (cu_ptr % 16 # 0)

MemsetD8_Short(m, cu_ptr, n) ==
  [m EXCEPT ![cu_ptr] = [i \in 1..BufLen |-> IF i < n THEN 0 ELSE @[i]]]

\* cuMemsetD8Async(cu_ptr, 0, n, stream) taking effect.
MemsetD8(m, cu_ptr, n) ==
  [m EXCEPT ![cu_ptr] = [i \in 1..BufLen |-> IF i <= n THEN 0 ELSE @[i]]]

AdvanceCursor_Stuck(param, b) == b

\* The buffer cursor after a parameter: `*(buffers++)` runs for an
\* ArrayParameter only.
AdvanceCursor(param, b) == IF param.kind = "array" THEN b + 1 ELSE b

\* The loop of KernelCall::Launch from parameter i on, with b buffers
\* consumed and params built so far.
RECURSIVE LaunchLoop(_, _, _, _, _, _, _)
LaunchLoop(parameters, buffers, i, b, params, D, f) ==
  IF i > Len(parameters)
  THEN [st |-> OkStatus, params |-> params, D |-> D]
  ELSE
    LET param == parameters[i] IN
    IF param.kind = "array"
    THEN
      LET ptr == buffers[b + 1] IN
      IF AlignmentViolated(param, ptr)
      THEN [st |-> InvalidArgumentError("not divisible by 16"),
            params |-> params, D |-> D]
      ELSE IF param.bytes_to_zero > 0 /\ f = "cuMemsetD8Async"
      THEN [st |-> InternalError(f), params |-> params, D |-> D]
      ELSE
        LET D1 == IF param.bytes_to_zero > 0
                  THEN [D EXCEPT
                          !.ops = Append(@, [op |-> "memset", ptr |-> ptr,
                                             count |-> param.bytes_to_zero,
                                             kernel |-> 0, function |-> 0,
                                             params |-> <<>>,
                                             seen |-> <<>>]),
                          !.mem = MemsetD8(@, ptr, param.bytes_to_zero)]
                  ELSE D
        IN LaunchLoop(parameters, buffers, i + 1, AdvanceCursor(param, b),
                      Append(params, [kind |-> "array", index |-> i,
                                      value |-> ptr]),
                      D1, f)
    ELSE LaunchLoop(parameters, buffers, i + 1, AdvanceCursor(param, b),
                    Append(params, [kind |-> "scalar", index |-> i,
                                    value |-> param.value]),
                    D, f)

\* KernelCall::Launch(stream, buffers) of a call with kernel_ = k.
KernelCallLaunch(k, parameters, stream, buffers, D, f) ==
  LET r == LaunchLoop(parameters, buffers, 1, 0, <<>>, D, f)
  IN IF r.st # OkStatus THEN [st |-> r.st, D |-> r.D]
     ELSE KernelLaunch(k, stream, r.params, r.D, f)

\* The buffers the runtime supplies: one per ArrayParameter.
NumArrays(parameters) ==
  Cardinality({i \in 1..Len(parameters) : parameters[i].kind = "array"})

\* ------------------------------------------------------ initial state
\* Device memory holds non-zero bytes that differ along a buffer.
InitMem == [p \in Ptrs |-> [i \in 1..BufLen |-> 1 + (i % MaxByte)]]

NoLaunch == [st |-> OkStatus, ops |-> <<>>]

DeviceInit ==
  /\ mem = InitMem
  /\ ctx_stack = [t \in Threads |-> IF t % 2 = 1 THEN <<>> ELSE <<1>>]
  /\ ctx_underflow = [t \in Threads |-> FALSE]

\* Kernels as their constructor leaves them (lines 76-81): nothing loaded.
KernelsInit ==
  /\ \E s \in {0, 65536} : shared_mem_bytes_ = [k \in Kernels |-> s]
  /\ functions_ = [k \in Kernels |-> [c \in Contexts |-> 0]]
  /\ modules_ = [k \in Kernels |-> <<>>]
  /\ func_configured = [k \in Kernels |-> {}]

CallersInit ==
  /\ pc = [t \in Threads |-> "idle"]
  /\ stream_arg = [t \in Threads |-> 1]
  /\ buffers_arg = [t \in Threads |-> <<>>]
  /\ result = [t \in Threads |-> OkStatus]
  /\ last_launch = [t \in Threads |-> NoLaunch]
  /\ did_launch = [t \in Threads |-> FALSE]
  /\ ctx_entry = ctx_stack
  /\ mem_entry = [t \in Threads |-> mem]
  /\ ncalls = [t \in Threads |-> 0]

\* std::numeric_limits<float>::infinity(): above every time.
Infinity == -1

NoLocals == [i |-> 0, best |-> Infinity, timed_iters |-> 0, input_copies |-> <<>>]

\* An AutotunedKernelCall as its constructor leaves it (lines 312-317).
TuneInit(configs, aliases) ==
  /\ configs_ = configs
  /\ input_output_aliases_ = aliases
  /\ autotune_once_ = "init"
  /\ autotune_status_ = OkStatus
  /\ at = NoLocals
  /\ num_configs = Len(configs)
  /\ autotune_runs = 0
  /\ measured = <<>>
  /\ events_live = 0
  /\ restores = <<>>
  /\ did_autotune = [t \in Threads |-> FALSE]
  /\ did_bench = [t \in Threads |-> FALSE]
  /\ observed = [t \in Threads |-> OkStatus]

devVars == <<mem, ctx_stack, ctx_underflow>>
kernelVars == <<shared_mem_bytes_, kernel_output, functions_, modules_, func_configured>>
callVars == <<parameters_, pc, stream_arg, buffers_arg, result, last_launch,
              did_launch, ctx_entry, mem_entry, ncalls>>
tuneVars == <<configs_, input_output_aliases_, autotune_once_,
              autotune_status_, at, num_configs, autotune_runs, measured,
              events_live, restores, did_autotune, did_bench, observed>>
cacheVars == <<kernels, kernel_objects, kernels_mutex, gk, gk_returned,
               kernel_calls, call_objects, gc_returned, aborted>>
entryVars == <<calls_mutex, ep_call, status_handle, kernel_entry, dec>>
vars == <<devVars, kernelVars, callVars, tuneVars, cacheVars, entryVars>>

\* No GetKernel call in progress.
GkIdle == [pc |-> "idle", proto |-> <<>>, image |-> <<>>, st |-> OkStatus,
           kernel |-> 0, calls |-> 0]

\* The static maps of GetKernel and GetKernelCall before their first use.
CachesInit ==
  /\ kernels = {}
  /\ kernel_objects = <<>>
  /\ kernels_mutex = 0
  /\ gk = [t \in Threads |-> GkIdle]
  /\ gk_returned = {}
  /\ kernel_calls = {}
  /\ call_objects = <<>>
  /\ gc_returned = <<>>
  /\ aborted = FALSE

\* No decompression in progress.
DecIdle == [pc |-> "idle", opaque |-> <<>>, dest_len |-> 0, tries |-> 0,
            st |-> OkStatus, serialized |-> <<>>]

\* No Kernel::Launch made yet: the kernel launched and its members when the
\* call was entered and when it returned.
NoEntry ==
  [kernel |-> 0, functions_ |-> <<>>, modules_ |-> <<>>,
   functions_ret |-> <<>>, modules_ret |-> <<>>]

\* No entry-point call in progress.
EntryInit ==
  /\ calls_mutex = 0
  /\ ep_call = [t \in Threads |-> 0]
  /\ status_handle = [t \in Threads |-> "untouched"]
  /\ kernel_entry = [t \in Threads |-> NoEntry]
  /\ dec = DecIdle

\* Write back what an operation of thread t did to the device and kernels.
StoreDev(t, D) ==
  /\ mem' = D.mem
  /\ functions_' = D.funcs
  /\ modules_' = D.mods
  /\ func_configured' = D.conf
  /\ ctx_stack' = [ctx_stack EXCEPT ![t] = D.stack]
  /\ ctx_underflow' = [ctx_underflow EXCEPT ![t] = D.under]
  /\ events_live' = D.events

ModulesBounded(D) == \A k \in Kernels : Len(D.mods[k]) <= MaxModules

\* ------------------------------------------ one KernelCall, one launch
ArrayChoices ==
  {ArrayParameter(z, a) : z \in {0, 1}, a \in BOOLEAN}

ParamChoices == ArrayChoices \cup {ScalarParameter(7)}

ParamLists == UNION {[1..n -> ParamChoices] : n \in 0..MaxParams}

InitLaunch ==
  /\ DeviceInit
  /\ KernelsInit
  /\ parameters_ \in ParamLists
  /\ \E w \in {0, NumArrays(parameters_)} :
       kernel_output = [k \in Kernels |-> w]
  /\ CallersInit
  /\ TuneInit(<<>>, <<>>)
  /\ CachesInit
  /\ EntryInit

\* A thread calls KernelCall::Launch(stream, buffers) on the call.
DoKernelCallLaunch(t) ==
  /\ \A u \in Threads : pc[u] = "idle" /\ ncalls[u] = 0
  /\ \E stream \in Streams, f \in LaunchFaults,
        buffers \in [1..NumArrays(parameters_) -> Ptrs] :
       LET r == KernelCallLaunch(1, parameters_, stream, buffers,
                                 DevOf(t), f)
       IN /\ ModulesBounded(r.D)
          /\ StoreDev(t, r.D)
          /\ stream_arg' = [stream_arg EXCEPT ![t] = stream]
          /\ buffers_arg' = [buffers_arg EXCEPT ![t] = buffers]
          /\ result' = [result EXCEPT ![t] = r.st]
          /\ last_launch' = [last_launch EXCEPT
                               ![t] = [st |-> r.st, ops |-> r.D.ops]]
          /\ did_launch' = [did_launch EXCEPT ![t] = r.D.issued]
          /\ pc' = [pc EXCEPT ![t] = "returned"]
          /\ UNCHANGED <<shared_mem_bytes_, kernel_output, parameters_,
                         ctx_entry, mem_entry, ncalls, configs_,
                         input_output_aliases_, restores, autotune_once_,
                         autotune_status_, at, num_configs, autotune_runs,
                         measured, did_autotune, did_bench, observed,
                         cacheVars, entryVars>>

\* The call has returned to its caller.
ReturnToCaller(t) ==
  /\ pc[t] = "returned"
  /\ pc' = [pc EXCEPT ![t] = "idle"]
  /\ ncalls' = [ncalls EXCEPT ![t] = @ + 1]
  /\ result' = [result EXCEPT ![t] = OkStatus]
  /\ observed' = [observed EXCEPT ![t] = OkStatus]
  /\ last_launch' = [last_launch EXCEPT ![t] = NoLaunch]
  /\ did_launch' = [did_launch EXCEPT ![t] = FALSE]
  /\ did_bench' = [did_bench EXCEPT ![t] = FALSE]
  /\ did_autotune' = [did_autotune EXCEPT ![t] = FALSE]
  /\ ctx_entry' = [ctx_entry EXCEPT ![t] = ctx_stack[t]]
  /\ mem_entry' = [mem_entry EXCEPT ![t] = mem]
  /\ UNCHANGED <<devVars, kernelVars, parameters_, stream_arg, buffers_arg,
                 configs_, input_output_aliases_, restores, autotune_once_,
                 autotune_status_, at, num_configs, autotune_runs, measured,
                 events_live, cacheVars, entryVars>>

NextLaunch == \E t \in Threads : DoKernelCallLaunch(t)

SpecLaunch == InitLaunch /\ [][NextLaunch]_vars

\* ------------------------------------------------ AutotunedKernelCall
Min(a, b) == IF a < b THEN a ELSE b
Max(a, b) == IF a > b THEN a ELSE b

\* Elapsed times cuEventElapsedTime may report, in milliseconds.
Times == {4 * k : k \in 1..MaxTime}

\* a < b for times, b possibly infinity.
Less(a, b) == b = Infinity \/ (a # Infinity /\ a < b)

IsNewBest_OrEqual(t, best) == t = best \/ Less(t, best)

\* `t < best` of line 403.
IsNewBest(t, best) == Less(t, best)

\* Lines 385-394: the iterations of the second pass.
TimedIters(best) ==
  LET timed_iters == Max(kBenchmarkTimeMillis \div best, 1)
  IN IF timed_iters > kMaxTimedIters THEN kMaxTimedIters
     ELSE Min(timed_iters, kMaxTimedIters)

\* The faults of a benchmark: a driver call on the events, or a launch
\* (the warm-up is launch 0, the timed ones 1..n).
EventFaults ==
  {"cuEventCreate_start", "cuEventCreate_stop", "cuEventRecord_start",
   "cuEventRecord_stop", "cuEventSynchronize", "cuEventElapsedTime",
   "cuEventDestroy_start", "cuEventDestroy_stop"}

\* Launch number j of a benchmark: launch fault lf strikes launch k.
BenchLaunch(cfg, stream, buffers, D, j, k, lf) ==
  KernelCallLaunch(cfg.kernel, parameters_, stream, buffers,
                   [D EXCEPT !.ops = <<>>],
                   IF j = k THEN lf ELSE "none")

\* The loop of lines 434-436 from iteration j on.
RECURSIVE TimedLaunches(_, _, _, _, _, _, _, _)
TimedLaunches(cfg, stream, buffers, D, j, n, k, lf) ==
  IF j > n THEN [st |-> OkStatus, D |-> D]
  ELSE LET r == BenchLaunch(cfg, stream, buffers, D, j, k, lf)
       IN IF r.st # OkStatus THEN r
          ELSE TimedLaunches(cfg, stream, buffers, r.D, j + 1, n, k, lf)

\* AutotunedKernelCall::Benchmark: bf is the event call that fails (or
\* "none"), elapsed the time the driver reports.
Benchmark(cfg, stream, buffers, D, n, bf, k, lf, elapsed) ==
  IF bf = "cuEventCreate_start"
  THEN [st |-> InternalError(bf), t |-> 0, D |-> D]
  ELSE LET D1 == [D EXCEPT !.events = @ + 1] IN
  IF bf = "cuEventCreate_stop"
  THEN [st |-> InternalError(bf), t |-> 0, D |-> D1]
  ELSE LET D2 == [D1 EXCEPT !.events = @ + 1]
           warm == BenchLaunch(cfg, stream, buffers, D2, 0, k, lf)
       IN
  IF warm.st # OkStatus THEN [st |-> warm.st, t |-> 0, D |-> warm.D]
  ELSE IF bf = "cuEventRecord_start"
  THEN [st |-> InternalError(bf), t |-> 0, D |-> warm.D]
  ELSE LET timed == TimedLaunches(cfg, stream, buffers, warm.D, 1, n, k,
                                  lf) IN
  IF timed.st # OkStatus THEN [st |-> timed.st, t |-> 0, D |-> timed.D]
  ELSE IF bf \in {"cuEventRecord_stop", "cuEventSynchronize",
                  "cuEventElapsedTime", "cuEventDestroy_start"}
  THEN [st |-> InternalError(bf), t |-> 0, D |-> timed.D]
  ELSE LET D3 == [timed.D EXCEPT !.events = @ - 1] IN
  IF bf = "cuEventDestroy_stop"
  THEN [st |-> InternalError(bf), t |-> 0, D |-> D3]
  ELSE [st |-> OkStatus, t |-> elapsed,
        D |-> [D3 EXCEPT !.events = @ - 1]]

\* The inputs of a benchmark of n timed iterations.
BenchInputs(n) ==
  {[bf |-> "none", k |-> 0, lf |-> "none"]}
    \cup {[bf |-> f, k |-> 0, lf |-> "none"] : f \in EventFaults}
    \cup {[bf |-> "none", k |-> k, lf |-> f] :
            k \in 0..n, f \in LaunchFaults \ {"none"}}

\* The first n bytes at a device pointer.
Prefix(bytes, n) == [i \in 1..Min(n, Len(bytes)) |-> bytes[i]]

\* Lines 363-372 from alias j on: copy the aliased inputs to the host.
RECURSIVE SaveAliases(_, _, _, _, _)
SaveAliases(buffers, j, copies, m, f) ==
  IF j > Len(input_output_aliases_) THEN [st |-> OkStatus, copies |-> copies]
  ELSE LET input_idx == input_output_aliases_[j][1]
           output_idx == input_output_aliases_[j][2]
           size == input_output_aliases_[j][3]
       IN IF buffers[input_idx + 1] = buffers[output_idx + 1]
          THEN IF f = "cuMemcpyDtoHAsync"
               THEN [st |-> InternalError(f), copies |-> copies]
               ELSE SaveAliases(buffers, j + 1,
                      [copies EXCEPT
                         ![input_idx] = Prefix(m[buffers[input_idx + 1]],
                                               size)],
                      m, f)
          ELSE SaveAliases(buffers, j + 1, copies, m, f)

\* cuMemcpyHtoDAsync(dst, src.data(), size, stream) taking effect.  Reading
\* past the end of the host vector is undefined: the bytes read there are
\* whatever follows it (junk).
MemcpyHtoD(m, dst, src, size, junk) ==
  [m EXCEPT ![dst] = [i \in 1..BufLen |->
                        IF i > size THEN @[i]
                        ELSE IF i <= Len(src) THEN src[i]
                        ELSE junk]]

\* Lines 417-421 from alias j on: copy input_copies[input_idx] back, for
\* every alias triple.  issued lists the copies handed to the driver: the
\* triple, whether its two buffers are one pointer, and the length of the
\* host vector read against the size asked for.  A copy from a host vector
\* shorter than size is undefined behaviour: the driver rejects the host
\* pointer (oob = "error") or junk is copied (oob = "junk").
RECURSIVE RestoreAliases(_, _, _, _, _, _, _)
RestoreAliases(buffers, j, copies, m, f, oob, junk) ==
  IF j > Len(input_output_aliases_)
  THEN [st |-> OkStatus, mem |-> m, issued |-> <<>>]
  ELSE LET input_idx == input_output_aliases_[j][1]
           output_idx == input_output_aliases_[j][2]
           size == input_output_aliases_[j][3]
           src == copies[input_idx]
           copy == [alias |-> j,
                    aliased |-> buffers[input_idx + 1]
                                  = buffers[output_idx + 1],
                    snapshot |-> Len(src), size |-> size]
       IN IF f = "cuMemcpyHtoDAsync"
          THEN [st |-> InternalError(f), mem |-> m, issued |-> <<copy>>]
          ELSE IF Len(src) < size /\ oob = "error"
          THEN [st |-> InternalError("cuMemcpyHtoDAsync"), mem |-> m,
                issued |-> <<copy>>]
          ELSE [RestoreAliases(buffers, j + 1, copies,
                  MemcpyHtoD(m, buffers[input_idx + 1], src, size, junk),
                  f, oob, junk)
                EXCEPT !.issued = <<copy>> \o @]

\* std::swap(configs_[i], configs_[0]).
SwapToFront(configs, i) ==
  [configs EXCEPT ![1] = configs[i], ![i] = configs[1]]

\* The parameters of every config of the autotuned call: an input that must
\* be aligned, a scalar, and an output of which z bytes are zero-filled.
AutotuneParams(z) ==
  <<ArrayParameter(0, TRUE), ScalarParameter(7), ArrayParameter(z, FALSE)>>

NumBuffers == NumArrays(AutotuneParams(0))

\* Alias triples (input 0, output 1, size), and the lists of them.
AliasTriples == {<<0, 1, size>> : size \in {1, BufLen}}

AliasLists == UNION {[1..n -> AliasTriples] : n \in 0..MaxAliases}

\* AutotunedKernelCall::FromProto (lines 329-347): n configs, config i with
\* description i and its own kernel, and the alias triples.  Kernel big (if
\* any) needs 64 KiB of shared memory, the others none.  The threads in
\* callers launch the call, each with the buffers the runtime hands it.
AutotunedCallInit(callers, n, big, z, aliases, buffers) ==
  /\ DeviceInit
  /\ shared_mem_bytes_ = [k \in Kernels |-> IF k = big THEN 65536 ELSE 0]
  /\ functions_ = [k \in Kernels |-> [c \in Contexts |-> 0]]
  /\ modules_ = [k \in Kernels |-> <<>>]
  /\ func_configured = [k \in Kernels |-> {}]
  /\ parameters_ = AutotuneParams(z)
  /\ pc = [t \in Threads |-> "idle"]
  /\ stream_arg = [t \in Threads |-> 1]
  /\ buffers_arg = [t \in Threads |-> buffers]
  /\ result = [t \in Threads |-> OkStatus]
  /\ last_launch = [t \in Threads |-> NoLaunch]
  /\ did_launch = [t \in Threads |-> FALSE]
  /\ ctx_entry = ctx_stack
  /\ mem_entry = [t \in Threads |-> mem]
  /\ ncalls = [t \in Threads |-> IF t \in callers THEN 0 ELSE MaxCalls]
  /\ TuneInit([i \in 1..n |-> [description |-> i, kernel |-> i]], aliases)
  /\ CachesInit
  /\ EntryInit

\* Every thread launches the call; it has one or two configs and one alias.
InitAutotune ==
  \E n \in 1..2, big \in {0, 2}, buffers \in [1..NumBuffers -> Ptrs] :
    /\ kernel_output = [k \in Kernels |-> NumBuffers]
    /\ AutotunedCallInit(Threads, n, big, 1, <<<<0, 1, BufLen>>>>, buffers)

\* One thread launches the call, with any configs, aliases and buffers.
InitSolo ==
  \E c \in Threads, n \in 1..MaxConfigs, big \in {0, 2}, z \in {0, 1},
     aliases \in AliasLists, buffers \in [1..NumBuffers -> Ptrs],
     w \in {0, NumBuffers} :
    /\ kernel_output = [k \in Kernels |-> w]
    /\ AutotunedCallInit({c}, n, big, z, aliases, buffers)

\* The stream a thread launches on.
StreamOf(t) == ((t - 1) % NumStreams) + 1

OncePassed_Unlatched == autotune_once_ # "init"

\* absl::call_once lets a caller past a flag that is done; a caller that
\* finds the body running waits.
OncePassed == autotune_once_ = "done"

\* What no operation changes once the objects are constructed.
objConst == <<shared_mem_bytes_, kernel_output, parameters_,
              input_output_aliases_, num_configs, cacheVars, entryVars>>

\* AutotunedKernelCall::Launch up to and including absl::call_once (lines
\* 319-324), entered with stream and buffers.  The first caller runs the
\* body; with one config the body does nothing.
CallOnce(t) ==
  /\ pc[t] = "idle"
  /\ ncalls[t] < MaxCalls
  /\ stream_arg' = [stream_arg EXCEPT ![t] = StreamOf(t)]
  /\ ctx_entry' = [ctx_entry EXCEPT ![t] = ctx_stack[t]]
  /\ mem_entry' = [mem_entry EXCEPT ![t] = mem]
  /\ did_launch' = [did_launch EXCEPT ![t] = FALSE]
  /\ did_bench' = [did_bench EXCEPT ![t] = FALSE]
  /\ last_launch' = [last_launch EXCEPT ![t] = NoLaunch]
  /\ \/ /\ autotune_once_ = "init"
        /\ Len(configs_) > 1
        /\ autotune_once_' = "running"
        /\ autotune_runs' = autotune_runs + 1
        /\ did_autotune' = [did_autotune EXCEPT ![t] = TRUE]
        /\ pc' = [pc EXCEPT ![t] = "save"]
     \/ /\ autotune_once_ = "init"
        /\ Len(configs_) <= 1
        /\ autotune_once_' = "done"
        /\ did_autotune' = [did_autotune EXCEPT ![t] = TRUE]
        /\ pc' = [pc EXCEPT ![t] = "check"]
        /\ UNCHANGED autotune_runs
     \/ /\ autotune_once_ # "init"
        /\ OncePassed
        /\ did_autotune' = [did_autotune EXCEPT ![t] = FALSE]
        /\ pc' = [pc EXCEPT ![t] = "check"]
        /\ UNCHANGED <<autotune_once_, autotune_runs>>
  /\ UNCHANGED <<devVars, kernelVars, parameters_, buffers_arg, result,
                 ncalls, configs_, input_output_aliases_, restores,
                 autotune_status_,
                 at, num_configs, measured, events_live, observed, cacheVars,
                 entryVars>>

\* Autotune returns st: the context pushed at line 356 is popped by the
\* cleanup, the status is stored and the once flag is set.
AutotuneReturns(t, st, D, pushed) ==
  /\ StoreDev(t, CtxRestorer(D, pushed))
  /\ autotune_status_' = st
  /\ autotune_once_' = "done"
  /\ at' = NoLocals
  /\ pc' = [pc EXCEPT ![t] = "check"]

\* Autotune, lines 352-377: push the stream's context, save aliased inputs.
AutotuneSave(t) ==
  /\ pc[t] = "save"
  /\ \E f \in {"none", "cuStreamGetCtx", "cuCtxPushCurrent",
               "cuMemcpyDtoHAsync"} :
       LET D == DevOf(t)
           D1 == PushCurrent(D, StreamCtx(stream_arg[t]))
           r == SaveAliases(buffers_arg[t], 1,
                            [i \in 0..(NumBuffers - 1) |-> <<>>], mem, f)
       IN IF f \in {"cuStreamGetCtx", "cuCtxPushCurrent"}
          THEN AutotuneReturns(t, InternalError(f), D, FALSE)
          ELSE IF r.st # OkStatus
          THEN AutotuneReturns(t, r.st, D1, TRUE)
          ELSE /\ StoreDev(t, D1)
               /\ at' = [i |-> 1, best |-> Infinity, timed_iters |-> 0,
                         input_copies |-> r.copies]
               /\ pc' = [pc EXCEPT ![t] = "calibrate"]
               /\ UNCHANGED <<autotune_status_, autotune_once_>>
  /\ UNCHANGED <<objConst, restores, stream_arg, buffers_arg, result,
                 last_launch,
                 did_launch, ctx_entry, mem_entry, ncalls, configs_,
                 autotune_runs, measured, did_autotune, did_bench, observed>>

\* Autotune, lines 378-394: one iteration of the first loop, a benchmark of
\* configs_[i] with one timed iteration; after the last, the iteration count
\* of the second pass.
AutotuneCalibrate(t) ==
  /\ pc[t] = "calibrate"
  /\ \E in \in BenchInputs(1), elapsed \in Times :
     \E r \in {Benchmark(configs_[at.i], stream_arg[t], buffers_arg[t],
                         DevOf(t), 1, in.bf, in.k, in.lf, elapsed)} :
       LET best == IF Less(r.t, at.best) THEN r.t ELSE at.best
       IN /\ ModulesBounded(r.D)
          /\ did_launch' = [did_launch EXCEPT ![t] = @ \/ r.D.issued]
          /\ IF r.st # OkStatus
             THEN AutotuneReturns(t, r.st, r.D, TRUE)
             ELSE /\ StoreDev(t, r.D)
                  /\ IF at.i < Len(configs_)
                     THEN /\ at' = [at EXCEPT !.i = @ + 1, !.best = best]
                          /\ pc' = pc
                     ELSE /\ at' = [at EXCEPT
                                      !.i = 1, !.best = Infinity,
                                      !.timed_iters = TimedIters(best)]
                          /\ pc' = [pc EXCEPT ![t] = "select"]
                  /\ UNCHANGED <<autotune_status_, autotune_once_>>
  /\ did_bench' = [did_bench EXCEPT ![t] = TRUE]
  /\ UNCHANGED <<objConst, restores, stream_arg, buffers_arg, result,
                 last_launch,
                 ctx_entry, mem_entry, ncalls, configs_, autotune_runs,
                 measured, did_autotune, observed>>

\* Autotune, lines 396-408: one iteration of the second loop, a benchmark of
\* configs_[i] with timed_iters iterations and the swap into position 0.
AutotuneSelect(t) ==
  /\ pc[t] = "select"
  /\ \E in \in BenchInputs(at.timed_iters), elapsed \in Times :
     \E r \in {Benchmark(configs_[at.i], stream_arg[t], buffers_arg[t],
                         DevOf(t), at.timed_iters, in.bf, in.k, in.lf,
                         elapsed)} :
       LET config == configs_[at.i]
       IN /\ ModulesBounded(r.D)
          /\ did_launch' = [did_launch EXCEPT ![t] = @ \/ r.D.issued]
          /\ IF r.st # OkStatus
             THEN /\ AutotuneReturns(t, r.st, r.D, TRUE)
                  /\ UNCHANGED <<configs_, measured>>
             ELSE /\ StoreDev(t, r.D)
                  /\ measured' = Append(measured,
                                        [description |-> config.description,
                                         t |-> r.t])
                  /\ IF IsNewBest(r.t, at.best)
                     THEN /\ configs_' = SwapToFront(configs_, at.i)
                          /\ at' = [at EXCEPT !.i = @ + 1, !.best = r.t]
                     ELSE /\ configs_' = configs_
                          /\ at' = [at EXCEPT !.i = @ + 1]
                  /\ pc' = [pc EXCEPT
                              ![t] = IF at.i < Len(configs_) THEN "select"
                                     ELSE "finish"]
                  /\ UNCHANGED <<autotune_status_, autotune_once_>>
  /\ did_bench' = [did_bench EXCEPT ![t] = TRUE]
  /\ UNCHANGED <<objConst, restores, stream_arg, buffers_arg, result,
                 last_launch,
                 ctx_entry, mem_entry, ncalls, autotune_runs, did_autotune,
                 observed>>

EraseTail_Keep(configs) == configs

\* configs_.erase(configs_.begin() + 1, configs_.end()) of line 411.
EraseTail(configs) == SubSeq(configs, 1, 1)

\* Autotune, lines 410-425: keep configs_[0], copy the saved inputs back,
\* synchronize the stream.
AutotuneFinish(t) ==
  /\ pc[t] = "finish"
  /\ configs_' = EraseTail(configs_)
  /\ \E f \in {"none", "cuMemcpyHtoDAsync", "cuStreamSynchronize"},
        oob \in {"error", "junk"}, junk \in Bytes :
       LET r == RestoreAliases(buffers_arg[t], 1, at.input_copies, mem, f,
                               oob, junk)
           D == [DevOf(t) EXCEPT !.mem = r.mem]
       IN /\ restores' = r.issued
          /\ AutotuneReturns(t,
               IF r.st # OkStatus THEN r.st
               ELSE IF f = "cuStreamSynchronize" THEN InternalError(f)
               ELSE OkStatus,
               D, TRUE)
  /\ UNCHANGED <<objConst, stream_arg, buffers_arg, result, last_launch,
                 did_launch, ctx_entry, mem_entry, ncalls, autotune_runs,
                 measured, did_autotune, did_bench, observed>>

StatusGate_Ignored(st) == TRUE

\* JAX_RETURN_IF_ERROR(autotune_status_) of line 325 lets an ok status by.
StatusGate(st) == st = OkStatus

\* AutotunedKernelCall::Launch after call_once (lines 325-326): return the
\* stored status if it is an error, else launch configs_[0].
LaunchAfterOnce(t) ==
  /\ pc[t] = "check"
  /\ observed' = [observed EXCEPT ![t] = autotune_status_]
  /\ IF ~StatusGate(autotune_status_)
     THEN /\ result' = [result EXCEPT ![t] = autotune_status_]
          /\ UNCHANGED <<devVars, kernelVars, events_live, last_launch,
                         did_launch>>
     ELSE \E f \in LaunchFaults :
            \E r \in {KernelCallLaunch(configs_[1].kernel, parameters_,
                                       stream_arg[t], buffers_arg[t],
                                       DevOf(t), f)} :
               /\ ModulesBounded(r.D)
               /\ StoreDev(t, r.D)
               /\ result' = [result EXCEPT ![t] = r.st]
               /\ last_launch' = [last_launch EXCEPT
                                    ![t] = [st |-> r.st, ops |-> <<>>]]
               /\ did_launch' = [did_launch EXCEPT ![t] = @ \/ r.D.issued]
               /\ UNCHANGED <<shared_mem_bytes_, kernel_output>>
  /\ pc' = [pc EXCEPT ![t] = "returned"]
  /\ UNCHANGED <<parameters_, input_output_aliases_, restores, num_configs,
                 stream_arg,
                 buffers_arg, ctx_entry, mem_entry, ncalls, configs_,
                 autotune_once_, autotune_status_, at, autotune_runs,
                 measured, did_autotune, did_bench, cacheVars, entryVars>>

NextAutotune ==
  \E t \in Threads :
    \/ CallOnce(t)
    \/ AutotuneSave(t)
    \/ AutotuneCalibrate(t)
    \/ AutotuneSelect(t)
    \/ AutotuneFinish(t)
    \/ LaunchAfterOnce(t)
    \/ ReturnToCaller(t)

SpecAutotune == InitAutotune /\ [][NextAutotune]_vars

SpecSolo == InitSolo /\ [][NextAutotune]_vars

\* ---------------------------------------- claims on KernelCall::Launch
\* The driver kernel launches among the stream operations of a launch.
LaunchOps(ops) == {i \in 1..Len(ops) : ops[i].op = "launch"}

\* Array parameters before parameter i, in declaration order.
ArraysBefore(parameters, i) ==
  Cardinality({j \in 1..(i - 1) : parameters[j].kind = "array"})

\* Some ArrayParameter requires 16-byte alignment and is bound to a pointer
\* that is not a multiple of 16.
Misaligned(parameters, buffers) ==
  {i \in 1..Len(parameters) :
     /\ parameters[i].kind = "array"
     /\ parameters[i].ptr_must_be_divisible_by_16
     /\ buffers[ArraysBefore(parameters, i) + 1] % 16 # 0}

\* C7 (positional binding): whenever the driver is handed a parameter-pointer
\* vector, it has one entry per parameter in declaration order; the entry of
\* the k-th ArrayParameter (counting array parameters only) points at
\* buffers[k], and the entry of a scalar points at that scalar.
PositionalBinding ==
  \A t \in Threads :
    \A n \in LaunchOps(last_launch[t].ops) :
      LET P == last_launch[t].ops[n].params
      IN /\ Len(P) = Len(parameters_)
         /\ \A i \in 1..Len(P) :
              /\ P[i].index = i
              /\ P[i].kind = parameters_[i].kind
              /\ parameters_[i].kind = "array" =>
                   P[i].value =
                     buffers_arg[t][ArraysBefore(parameters_, i) + 1]
              /\ parameters_[i].kind = "scalar" =>
                   P[i].value = parameters_[i].value

\* C7 witness: a launch of [array, scalar, array] with two different buffers
\* reached the driver.
PositionalBindingWitness ==
  \E t \in Threads :
    /\ pc[t] = "returned"
    /\ did_launch[t]
    /\ Len(parameters_) = 3
    /\ parameters_[1].kind = "array"
    /\ parameters_[2].kind = "scalar"
    /\ parameters_[3].kind = "array"
    /\ buffers_arg[t][1] # buffers_arg[t][2]

\* C8 as stated (alignment enforcement): a launch with a misaligned
\* ArrayParameter that requires alignment returns InvalidArgument and issues
\* no driver kernel launch.
AlignmentEnforcedAsStated ==
  \A t \in Threads :
    (pc[t] = "returned"
       /\ Misaligned(parameters_, buffers_arg[t]) # {}) =>
      /\ result[t].code = "InvalidArgument"
      /\ ~did_launch[t]

\* C8 amended: such a launch fails and issues no driver kernel launch; the
\* failure is InvalidArgument unless the zero-fill memset of an array
\* parameter before the first misaligned one reported a driver error, which
\* is then what launch returns.
AlignmentEnforced ==
  \A t \in Threads :
    LET bad == Misaligned(parameters_, buffers_arg[t]) IN
    (pc[t] = "returned" /\ bad # {}) =>
      /\ ~did_launch[t]
      /\ LaunchOps(last_launch[t].ops) = {}
      /\ \/ result[t] = InvalidArgumentError("not divisible by 16")
         \/ /\ result[t] = InternalError("cuMemsetD8Async")
            /\ \E j \in 1..Len(parameters_) :
                 /\ \A i \in bad : j < i
                 /\ parameters_[j].kind = "array"
                 /\ parameters_[j].bytes_to_zero > 0

\* C8 witness: a launch with a misaligned parameter returned InvalidArgument.
AlignmentEnforcedWitness ==
  \E t \in Threads :
    /\ pc[t] = "returned"
    /\ Misaligned(parameters_, buffers_arg[t]) # {}
    /\ result[t].code = "InvalidArgument"

\* C9 (zero-fill sequencing): in a launch that reached the driver, every
\* ArrayParameter with bytes_to_zero = k > 0 has a memset of k bytes at its
\* buffer enqueued before the kernel launch, and the first k bytes of that
\* buffer are zero in the memory the kernel starts on.
ZeroFillSequencing ==
  \A t \in Threads :
    \A n \in LaunchOps(last_launch[t].ops) :
      \A i \in 1..Len(parameters_) :
        (parameters_[i].kind = "array" /\ parameters_[i].bytes_to_zero > 0) =>
          LET ptr == buffers_arg[t][ArraysBefore(parameters_, i) + 1]
              k == parameters_[i].bytes_to_zero
              ops == last_launch[t].ops
          IN /\ \E m \in 1..(n - 1) :
                  /\ ops[m].op = "memset"
                  /\ ops[m].ptr = ptr
                  /\ ops[m].count = k
             /\ \A b \in 1..k : ops[n].seen[ptr][b] = 0

\* C9 witness: a successful launch with a zero-filled parameter whose buffer
\* held non-zero bytes on entry.
ZeroFillSequencingWitness ==
  \E t \in Threads :
    /\ pc[t] = "returned"
    /\ result[t] = OkStatus
    /\ did_launch[t]
    /\ \E i \in 1..Len(parameters_) :
         /\ parameters_[i].kind = "array"
         /\ parameters_[i].bytes_to_zero > 0
         /\ mem_entry[t][buffers_arg[t][ArraysBefore(parameters_, i) + 1]][1]
              # 0

\* ------------------------------- claims on AutotunedKernelCall::Launch
\* The threads that are past absl::call_once in their current call.
PastOnce == {t \in Threads : pc[t] \in {"check", "returned"}}

\* C2: with at least two configs the autotune body runs exactly once for
\* all the threads that make the first launch; nobody gets past call_once
\* before the body has finished, and every thread then reads the status that
\* the body stored.
LatchExclusivity ==
  /\ autotune_runs <= 1
  /\ \A t \in PastOnce :
       /\ autotune_once_ = "done"
       /\ num_configs >= 2 => autotune_runs = 1
  /\ \A t \in Threads : pc[t] = "returned" => observed[t] = autotune_status_

\* Two threads have returned from their first launch of a call with two
\* configs whose autotune failed: one ran the body, the other did not.
LatchExclusivityWitness ==
  /\ num_configs >= 2
  /\ autotune_status_ # OkStatus
  /\ \E t, u \in Threads :
       /\ pc[t] = "returned" /\ pc[u] = "returned"
       /\ ncalls[t] = 0 /\ ncalls[u] = 0
       /\ did_autotune[t] /\ ~did_autotune[u]
       /\ observed[t] = observed[u]

\* The smallest index whose second-pass time is the minimum.
FirstMin(m) ==
  CHOOSE k \in 1..Len(m) :
    /\ \A j \in 1..Len(m) : m[k].t <= m[j].t
    /\ \A j \in 1..(k - 1) : m[j].t > m[k].t

\* C3: after a successful autotune of n >= 2 configs the one config left is
\* the first of those with the smallest second-pass time, and the second
\* pass benchmarked every config once, in the original order.
AutotuneSelection ==
  (autotune_once_ = "done" /\ autotune_status_ = OkStatus /\ num_configs >= 2)
    => /\ Len(configs_) = 1
       /\ Len(measured) = num_configs
       /\ \A i \in 1..num_configs : measured[i].description = i
       /\ configs_[1] = [description |-> FirstMin(measured),
                         kernel |-> FirstMin(measured)]

\* Autotune succeeded on three configs, the last two tied for the best time.
AutotuneSelectionWitness ==
  /\ autotune_once_ = "done"
  /\ autotune_status_ = OkStatus
  /\ num_configs = 3
  /\ Len(measured) = 3
  /\ measured[1].t > measured[2].t
  /\ measured[2].t = measured[3].t
  /\ configs_[1].description = 2

\* The alias triples whose two buffers the caller passed as one pointer.
SavedAliases(buffers) ==
  {j \in 1..Len(input_output_aliases_) :
     buffers[input_output_aliases_[j][1] + 1]
       = buffers[input_output_aliases_[j][2] + 1]}

\* The size bytes of alias triple j are what they were when thread t entered
\* its launch.
AliasBytesRestored(t, j) ==
  LET p == buffers_arg[t][input_output_aliases_[j][1] + 1]
      size == input_output_aliases_[j][3]
  IN Prefix(mem[p], size) = Prefix(mem_entry[t][p], size)

\* The launches of the call write no buffer: the kernels store nothing and
\* no parameter asks for a zero-fill.
QuietKernels ==
  /\ \A k \in Kernels : kernel_output[k] = 0
  /\ \A i \in 1..Len(parameters_) : parameters_[i].bytes_to_zero = 0

\* C4: when the first launch returns, the bytes of every alias triple whose
\* buffers were passed as one pointer are what they were on entry.  Stated
\* for kernels that write nothing, so that only the autotuner touches them.
AliasRestoration ==
  \A t \in Threads :
    (pc[t] = "returned" /\ did_autotune[t] /\ QuietKernels)
      => \A j \in SavedAliases(buffers_arg[t]) : AliasBytesRestored(t, j)

\* C5: once autotune has failed, a launch returns the stored status, and a
\* launch that did not run the failed autotune itself runs no benchmark and
\* issues no kernel launch; autotune is never run again.
AutotuneErrorsLatched ==
  /\ autotune_runs <= 1
  /\ \A t \in Threads :
       (pc[t] = "returned" /\ autotune_status_ # OkStatus)
         => /\ result[t] = autotune_status_
            /\ ~did_autotune[t] => (~did_launch[t] /\ ~did_bench[t])

\* After a failed autotune the thread that ran it has launched again, and a
\* second thread has launched too; both got the stored status.
AutotuneErrorsLatchedWitness ==
  /\ autotune_status_ # OkStatus
  /\ autotune_runs = 1
  /\ \E t, u \in Threads :
       /\ t # u
       /\ pc[t] = "returned" /\ ncalls[t] = 1 /\ ~did_autotune[t]
       /\ pc[u] = "returned" /\ ~did_autotune[u]
       /\ result[t] = autotune_status_ /\ result[u] = autotune_status_

\* C10: when a launch has returned, with or without an error, the calling
\* thread's context stack is what it was on entry, and no pop ever removed
\* a context the call had not pushed.
ContextRestoration ==
  \A t \in Threads :
    /\ ~ctx_underflow[t]
    /\ pc[t] \in {"idle", "returned"} => ctx_stack[t] = ctx_entry[t]

\* A launch that ran autotune returned the error of a driver call made
\* between a push and its pop, on a thread that had a context on entry.
ContextRestorationWitness ==
  \E t \in Threads :
    /\ pc[t] = "returned"
    /\ did_autotune[t]
    /\ ctx_entry[t] # <<>>
    /\ ctx_stack[t] = ctx_entry[t]
    /\ result[t] = InternalError("cuModuleGetFunction")

\* ---------------------------------------------------------- GetKernel
\* TritonKernel descriptors: one, and those that differ from it in exactly
\* one field.
BaseKernelProto ==
  [ptx |-> "ptx_a", kernel_name |-> "f", num_warps |-> 4,
   shared_mem_bytes |-> 0, compute_capability |-> 80]

KernelProtos ==
  {BaseKernelProto,
   [BaseKernelProto EXCEPT !.ptx = "ptx_b"],
   [BaseKernelProto EXCEPT !.kernel_name = "g"],
   [BaseKernelProto EXCEPT !.num_warps = 8],
   [BaseKernelProto EXCEPT !.shared_mem_bytes = 65536],
   [BaseKernelProto EXCEPT !.compute_capability = 75]}

KernelKey_WithoutCapability(proto) ==
  <<proto.ptx, proto.kernel_name, proto.num_warps, proto.shared_mem_bytes>>

\* The key of lines 163-165.
KernelKey(proto) ==
  <<proto.ptx, proto.kernel_name, proto.num_warps, proto.shared_mem_bytes,
    proto.compute_capability>>

\* kernels.find(key): the instance stored under key, or 0.
KernelsFind(K, key) ==
  IF \E e \in K : e.key = key
  THEN (CHOOSE e \in K : e.key = key).kernel
  ELSE 0

\* The module image stream_executor::CompileGpuAsm makes (lines 177-182).
CompileGpuAsm(cc_major, cc_minor, ptx) ==
  [cc_major |-> cc_major, cc_minor |-> cc_minor, ptx |-> ptx]

CompileOf(proto) ==
  CompileGpuAsm(proto.compute_capability \div 10,
                proto.compute_capability % 10, proto.ptx)

\* The Kernel constructor (lines 76-81).
NewKernel(module_image, kernel_name, num_warps, shared_mem_bytes) ==
  [module_image_ |-> module_image, kernel_name_ |-> kernel_name,
   block_dim_x_ |-> num_warps * kNumThreadsPerWarp,
   shared_mem_bytes_ |-> shared_mem_bytes]

\* Lines 184-190: make the Kernel and insert it.  The insert, and with it
\* the CHECK, fails if the key is there already.
KernelsInsert(K, objs, proto, module_image) ==
  LET kernel == Len(objs) + 1
      success == KernelsFind(K, KernelKey(proto)) = 0
  IN [success |-> success,
      kernel |-> kernel,
      objs |-> Append(objs, NewKernel(module_image, proto.kernel_name,
                                      proto.num_warps,
                                      proto.shared_mem_bytes)),
      K |-> IF success
            THEN K \cup {[key |-> KernelKey(proto), kernel |-> kernel]}
            ELSE K]

MutexFree_Ignored(holder) == TRUE

\* absl::MutexLock lock(&mutex) of line 172 gets by when no thread holds
\* the mutex.
MutexFree(holder) == holder = 0

\* GetKernel, lines 172-174: take the mutex and look the key up.
GetKernelFind(t) ==
  /\ ~aborted
  /\ gk[t].pc = "idle"
  /\ gk[t].calls < MaxGets
  /\ MutexFree(kernels_mutex)
  /\ \E proto \in KernelProtos :
       LET kernel == KernelsFind(kernels, KernelKey(proto))
       IN IF kernel # 0
          THEN /\ gk' = [gk EXCEPT ![t] = [@ EXCEPT !.pc = "returned",
                                             !.proto = proto,
                                             !.st = OkStatus,
                                             !.kernel = kernel]]
               /\ gk_returned' = gk_returned
                                   \cup {[proto |-> proto, kernel |-> kernel]}
               /\ UNCHANGED kernels_mutex
          ELSE /\ gk' = [gk EXCEPT ![t] = [@ EXCEPT !.pc = "compile",
                                             !.proto = proto]]
               /\ kernels_mutex' = t
               /\ UNCHANGED gk_returned
  /\ UNCHANGED <<devVars, kernelVars, callVars, tuneVars, kernels,
                 kernel_objects, kernel_calls, call_objects, gc_returned,
                 aborted, entryVars>>

\* GetKernel, lines 177-182: compile, the mutex held; a failure is returned.
GetKernelCompile(t) ==
  /\ ~aborted
  /\ gk[t].pc = "compile"
  /\ \E ok \in BOOLEAN :
       IF ok
       THEN /\ gk' = [gk EXCEPT ![t] = [@ EXCEPT
                                          !.pc = "insert",
                                          !.image = CompileOf(gk[t].proto)]]
            /\ UNCHANGED kernels_mutex
       ELSE /\ gk' = [gk EXCEPT ![t] = [@ EXCEPT
                                          !.pc = "returned",
                                          !.st = InternalError("CompileGpuAsm"),
                                          !.kernel = 0]]
            /\ kernels_mutex' = 0
  /\ UNCHANGED <<devVars, kernelVars, callVars, tuneVars, kernels,
                 kernel_objects, gk_returned, kernel_calls, call_objects,
                 gc_returned, aborted, entryVars>>

\* GetKernel, lines 184-190: make the Kernel, insert it, return it.
GetKernelInsert(t) ==
  /\ ~aborted
  /\ gk[t].pc = "insert"
  /\ LET r == KernelsInsert(kernels, kernel_objects, gk[t].proto,
                            gk[t].image)
     IN /\ kernel_objects' = r.objs
        /\ kernels' = r.K
        /\ aborted' = ~r.success
        /\ gk' = [gk EXCEPT ![t] = [@ EXCEPT !.pc = "returned",
                                      !.st = OkStatus,
                                      !.kernel = r.kernel]]
        /\ gk_returned' = IF r.success
                          THEN gk_returned \cup {[proto |-> gk[t].proto,
                                                  kernel |-> r.kernel]}
                          ELSE gk_returned
  /\ kernels_mutex' = 0
  /\ UNCHANGED <<devVars, kernelVars, callVars, tuneVars, kernel_calls,
                 call_objects, gc_returned, entryVars>>

\* The caller has the result of GetKernel.
GetKernelReturn(t) ==
  /\ ~aborted
  /\ gk[t].pc = "returned"
  /\ gk' = [gk EXCEPT ![t] = [GkIdle EXCEPT !.calls = gk[t].calls + 1]]
  /\ UNCHANGED <<devVars, kernelVars, callVars, tuneVars, kernels,
                 kernel_objects, kernels_mutex, gk_returned, kernel_calls,
                 call_objects, gc_returned, aborted, entryVars>>

\* Nothing is launched while the caches are exercised.
LauncherIdle ==
  /\ DeviceInit
  /\ shared_mem_bytes_ = [k \in Kernels |-> 0]
  /\ kernel_output = [k \in Kernels |-> 0]
  /\ functions_ = [k \in Kernels |-> [c \in Contexts |-> 0]]
  /\ modules_ = [k \in Kernels |-> <<>>]
  /\ func_configured = [k \in Kernels |-> {}]
  /\ parameters_ = <<>>
  /\ CallersInit
  /\ TuneInit(<<>>, <<>>)

InitKernelCache == LauncherIdle /\ CachesInit /\ EntryInit

NextKernelCache ==
  \E t \in Threads :
    \/ GetKernelFind(t)
    \/ GetKernelCompile(t)
    \/ GetKernelInsert(t)
    \/ GetKernelReturn(t)

SpecKernelCache == InitKernelCache /\ [][NextKernelCache]_vars

\* The five fields that identify a kernel.
KeyFields(proto) ==
  <<proto.ptx, proto.kernel_name, proto.num_warps, proto.shared_mem_bytes,
    proto.compute_capability>>

\* C6: in any interleaving of GetKernel calls, two successful calls return
\* the same Kernel instance exactly if their descriptors agree on ptx,
\* kernel_name, num_warps, shared_mem_bytes and compute_capability; the
\* instance is made from the descriptor it is returned for.
KernelCacheIdempotence ==
  /\ \A a, b \in gk_returned :
       (KeyFields(a.proto) = KeyFields(b.proto)) <=> (a.kernel = b.kernel)
  /\ \A a \in gk_returned :
       /\ a.kernel \in 1..Len(kernel_objects)
       /\ kernel_objects[a.kernel]
            = NewKernel(CompileOf(a.proto), a.proto.kernel_name,
                        a.proto.num_warps, a.proto.shared_mem_bytes)
  /\ ~aborted

\* Two threads got the same instance for the same descriptor, one of them
\* from the map, and a descriptor that differs in compute_capability alone
\* got another instance.
KernelCacheIdempotenceWitness ==
  /\ \E t, u \in Threads :
       /\ t # u
       /\ gk[t].pc = "returned" /\ gk[u].pc = "returned"
       /\ gk[t].st = OkStatus /\ gk[u].st = OkStatus
       /\ gk[t].proto = gk[u].proto
       /\ gk[t].kernel = gk[u].kernel
  /\ \E a, b \in gk_returned :
       /\ a.proto = BaseKernelProto
       /\ b.proto = [BaseKernelProto EXCEPT !.compute_capability = 75]
       /\ a.kernel # b.kernel

\* ------------------------------------------------------ GetKernelCall
\* A compressed stream is modelled as a run-length code: <<n1, b1, n2, b2>>
\* stands for n1 bytes b1 followed by n2 bytes b2.
Run(n, b) == [i \in 1..n |-> b]

RECURSIVE Inflate(_)
Inflate(source) ==
  IF Len(source) < 2 THEN <<>>
  ELSE Run(source[1], source[2]) \o Inflate(SubSeq(source, 3, Len(source)))

\* zlib's uncompress(dest, &dest_len, source, source_len): an empty stream
\* is corrupt; a stream whose output does not fit in dest_len bytes gets
\* Z_BUF_ERROR; a stream cut short is corrupt, but gets Z_BUF_ERROR when
\* what there is of it has filled the buffer to the last byte.
Uncompress(source, dest_len) ==
  IF Len(source) = 0 THEN [ret |-> "Z_DATA_ERROR", out |-> <<>>]
  ELSE IF Len(Inflate(source)) > dest_len
  THEN [ret |-> "Z_BUF_ERROR", out |-> <<>>]
  ELSE IF Len(source) % 2 = 1
  THEN [ret |-> IF Len(Inflate(source)) = dest_len THEN "Z_BUF_ERROR"
                ELSE "Z_DATA_ERROR",
        out |-> <<>>]
  ELSE [ret |-> "Z_OK", out |-> Inflate(source)]

DoubleDestLen_Stuck(dest_len) == dest_len

\* dest_len *= 2 of line 478.
DoubleDestLen(dest_len) == dest_len * 2

\* The loop of lines 468-482.
RECURSIVE UncompressLoop(_, _)
UncompressLoop(opaque, dest_len) ==
  LET r == Uncompress(opaque, dest_len)
  IN IF r.ret = "Z_OK" THEN [st |-> OkStatus, serialized |-> r.out]
     ELSE IF r.ret = "Z_BUF_ERROR"
     THEN UncompressLoop(opaque, DoubleDestLen(dest_len))
     ELSE [st |-> InvalidArgumentError("Failed to uncompress opaque data."),
           serialized |-> <<>>]

\* Lines 466-482: the descriptor bytes of an opaque.
Decompress(opaque) == UncompressLoop(opaque, 5 * Len(opaque))

\* The TritonKernel a descriptor byte names.
KernelProtoOf(b) ==
  IF b = 1 THEN BaseKernelProto
  ELSE [BaseKernelProto EXCEPT !.compute_capability = 75]

NoProto == [ok |-> FALSE, variant |-> "none", kernel_call |-> <<>>,
            configs |-> <<>>]

\* TritonAnyKernelCall::ParseFromString.  Descriptor bytes: none at all is a
\* message with no variant set; <<1, k, p...>> a kernel_call of kernel k
\* with parameters p; <<2, k...>> an autotuned_kernel_call with one config
\* per k; anything else does not parse.
ParseFromString(serialized) ==
  IF serialized = <<>> THEN [NoProto EXCEPT !.ok = TRUE]
  ELSE IF /\ serialized[1] = 1
          /\ Len(serialized) >= 2
          /\ serialized[2] \in {1, 2}
  THEN [ok |-> TRUE, variant |-> "kernel_call",
        kernel_call |-> [kernel |-> KernelProtoOf(serialized[2]),
                         parameters |-> SubSeq(serialized, 3,
                                               Len(serialized))],
        configs |-> <<>>]
  ELSE IF /\ serialized[1] = 2
          /\ \A i \in 2..Len(serialized) : serialized[i] \in {1, 2}
  THEN [ok |-> TRUE, variant |-> "autotuned_kernel_call",
        kernel_call |-> <<>>,
        configs |-> [i \in 1..(Len(serialized) - 1) |->
                       [kernel_call |->
                          [kernel |-> KernelProtoOf(serialized[i + 1]),
                           parameters |-> <<>>],
                        description |-> i]]]
  ELSE NoProto

\* GetKernel as one step for a caller that holds no lock of it: C is the
\* kernel cache (map K and instances objs), ok whether a compile succeeds.
GetKernel(proto, C, ok) ==
  LET kernel == KernelsFind(C.K, KernelKey(proto))
      r == KernelsInsert(C.K, C.objs, proto, CompileOf(proto))
  IN IF kernel # 0 THEN [st |-> OkStatus, kernel |-> kernel, C |-> C]
     ELSE IF ~ok
     THEN [st |-> InternalError("CompileGpuAsm"), kernel |-> 0, C |-> C]
     ELSE [st |-> OkStatus, kernel |-> r.kernel,
           C |-> [K |-> r.K, objs |-> r.objs]]

\* A parameter of a descriptor: 0 is an array, 1 a scalar, anything else a
\* parameter with no value set.
ParameterFromProto(code) ==
  IF code = 0 THEN ArrayParameter(0, FALSE) ELSE ScalarParameter(code)

NoCall == [type |-> "none", kernel_ |-> 0, parameters_ |-> <<>>,
           configs_ |-> <<>>]

\* KernelCall::FromProto (lines 281-297).
KernelCallFromProto(proto, C, ok) ==
  LET g == GetKernel(proto.kernel, C, ok)
  IN IF g.st # OkStatus THEN [st |-> g.st, call |-> NoCall, C |-> g.C]
     ELSE IF \E i \in 1..Len(proto.parameters) :
               proto.parameters[i] \notin {0, 1}
     THEN [st |-> InvalidArgumentError("Unknown scalar parameter type."),
           call |-> NoCall, C |-> g.C]
     ELSE [st |-> OkStatus,
           call |-> [NoCall EXCEPT
                       !.type = "KernelCall",
                       !.kernel_ = g.kernel,
                       !.parameters_ =
                          [i \in 1..Len(proto.parameters) |->
                             ParameterFromProto(proto.parameters[i])]],
           C |-> g.C]

\* AutotunedKernelCall::FromProto (lines 329-347) from config i on; the
\* compile for config number fail (if any) fails.
RECURSIVE AutotunedFromProto(_, _, _, _, _)
AutotunedFromProto(configs, i, made, C, fail) ==
  IF i > Len(configs)
  THEN [st |-> OkStatus,
        call |-> [NoCall EXCEPT !.type = "AutotunedKernelCall",
                                !.configs_ = made],
        C |-> C]
  ELSE LET r == KernelCallFromProto(configs[i].kernel_call, C, fail # i)
       IN IF r.st # OkStatus THEN r
          ELSE AutotunedFromProto(
                 configs, i + 1,
                 Append(made, [kernel_call |-> r.call,
                               description |-> configs[i].description]),
                 r.C, fail)

\* kernel_calls.find(key): the call object stored under key, or 0.
CallsFind(KC, key) ==
  IF \E e \in KC : e.key = key
  THEN (CHOOSE e \in KC : e.key = key).call
  ELSE 0

\* Lines 489-499: the call object of a parsed descriptor.
CallFromProto(proto, C, fail) ==
  IF proto.variant = "kernel_call"
  THEN KernelCallFromProto(proto.kernel_call, C, fail # 1)
  ELSE IF proto.variant = "autotuned_kernel_call"
  THEN AutotunedFromProto(proto.configs, 1, <<>>, C, fail)
  ELSE [st |-> InvalidArgumentError("Unknown kernel call type."),
        call |-> NoCall, C |-> C]

CheckFailed == [code |-> "Aborted", at |-> "CHECK(success)"]

\* GetKernelCall(opaque), under its mutex from the first line to the last:
\* the lookup is by the opaque bytes, the insert by the decompressed ones.
GetKernelCall(opaque, KC, cobjs, C, fail) ==
  LET it == CallsFind(KC, opaque)
      u == Decompress(opaque)
      proto == ParseFromString(u.serialized)
      r == CallFromProto(proto, C, fail)
      success == CallsFind(KC, u.serialized) = 0
      same == [KC |-> KC, cobjs |-> cobjs, C |-> C]
  IN IF it # 0 THEN [st |-> OkStatus, call |-> it] @@ same
     ELSE IF u.st # OkStatus THEN [st |-> u.st, call |-> 0] @@ same
     ELSE IF ~proto.ok
     THEN [st |-> InvalidArgumentError("Failed to parse serialized data."),
           call |-> 0] @@ same
     ELSE IF r.st # OkStatus
     THEN [st |-> r.st, call |-> 0, KC |-> KC, cobjs |-> cobjs, C |-> r.C]
     ELSE IF ~success
     THEN [st |-> CheckFailed, call |-> 0, KC |-> KC,
           cobjs |-> Append(cobjs, r.call), C |-> r.C]
     ELSE [st |-> OkStatus, call |-> Len(cobjs) + 1,
           KC |-> KC \cup {[key |-> u.serialized, call |-> Len(cobjs) + 1]},
           cobjs |-> Append(cobjs, r.call), C |-> r.C]

\* The opaques the runtime passes: two compressions of the descriptor of a
\* kernel call, an autotuned call, another kernel call, a kernel call with a
\* parameter that has no value set, a descriptor that needs a larger
\* buffer than the first guess, one with no variant set, one that does not
\* parse, a cut stream, an empty one, and the bytes of a descriptor itself.
Opaques ==
  {<<2, 1>>, <<1, 1, 1, 1>>, <<1, 2, 1, 1, 1, 2>>, <<1, 1, 1, 2>>,
   <<2, 1, 1, 9>>, <<11, 1>>, <<0, 1>>, <<1, 3>>, <<1>>, <<>>, <<1, 1>>}

\* A thread calls GetKernelCall(opaque).
DoGetKernelCall(t) ==
  /\ ~aborted
  /\ Len(gc_returned) <= MaxGets
  /\ \E opaque \in Opaques, fail \in 0..2 :
     \E r \in {GetKernelCall(opaque, kernel_calls, call_objects,
                             [K |-> kernels, objs |-> kernel_objects],
                             fail)} :
       /\ kernel_calls' = r.KC
       /\ call_objects' = r.cobjs
       /\ kernels' = r.C.K
       /\ kernel_objects' = r.C.objs
       /\ aborted' = (r.st = CheckFailed)
       /\ gc_returned' = Append(gc_returned,
                                [thread |-> t, opaque |-> opaque,
                                 st |-> r.st, call |-> r.call])
  /\ UNCHANGED <<devVars, kernelVars, callVars, tuneVars, kernels_mutex, gk,
                 gk_returned, entryVars>>

InitCallCache == LauncherIdle /\ CachesInit /\ EntryInit

NextCallCache == \E t \in Threads : DoGetKernelCall(t)

SpecCallCache == InitCallCache /\ [][NextCallCache]_vars

\* C1: of two GetKernelCall invocations whose opaques decompress to the
\* same descriptor bytes, the first of which returned a call object, the
\* second returns that object too; no CHECK fails.
CallCacheIdempotence ==
  /\ ~aborted
  /\ \A i, j \in 1..Len(gc_returned) :
       (/\ i < j
        /\ gc_returned[i].st = OkStatus
        /\ Decompress(gc_returned[i].opaque).st = OkStatus
        /\ Decompress(gc_returned[j].opaque)
             = Decompress(gc_returned[i].opaque))
         => /\ gc_returned[j].st = OkStatus
            /\ gc_returned[j].call = gc_returned[i].call

\* ------------------------------------------------- LaunchTritonKernel
\* The opaques of the custom calls: a kernel call without parameters, one
\* with an array parameter, an autotuned call with one config, a
\* descriptor that does not parse and a cut stream.
EntryOpaques ==
  {<<2, 1>>, <<2, 1, 1, 0>>, <<1, 2, 1, 2>>, <<1, 3>>, <<1>>}

\* kernel_call->Launch(stream, buffers) of line 514 for a KernelCall, and
\* for an AutotunedKernelCall with one config, whose call_once body does
\* nothing (line 321) and which launches configs_[0] (line 326).
CallLaunch(call, stream, buffers, D, f) ==
  IF call.type = "KernelCall"
  THEN KernelCallLaunch(call.kernel_, call.parameters_, stream, buffers,
                        D, f)
  ELSE KernelCallLaunch(call.configs_[1].kernel_call.kernel_,
                        call.configs_[1].kernel_call.parameters_, stream,
                        buffers, D, f)

\* The array parameters of what a call object launches.
CallArrays(call) ==
  IF call.type = "KernelCall" THEN NumArrays(call.parameters_)
  ELSE NumArrays(call.configs_[1].kernel_call.parameters_)

\* Lines 516-519: the status handle after the call returned result.
StatusAfter(st) == IF st = OkStatus THEN "untouched" ELSE st.at

\* LaunchTritonKernel enters GetKernelCall and takes its mutex (line 461).
EntryLock(t) ==
  /\ ~aborted
  /\ pc[t] = "idle"
  /\ ncalls[t] < MaxCalls
  /\ calls_mutex = 0
  /\ calls_mutex' = t
  /\ pc' = [pc EXCEPT ![t] = "locked"]
  /\ ep_call' = [ep_call EXCEPT ![t] = 0]
  /\ status_handle' = [status_handle EXCEPT ![t] = "untouched"]
  /\ did_launch' = [did_launch EXCEPT ![t] = FALSE]
  /\ UNCHANGED <<devVars, kernelVars, tuneVars, cacheVars, parameters_,
                 stream_arg, buffers_arg, result, last_launch, ctx_entry,
                 mem_entry, ncalls, kernel_entry, dec>>

\* GetKernelCall from the lookup to its return (lines 462-504), the mutex
\* held.  An error goes to the status handle (lines 516-519).
EntryDecode(t) ==
  /\ ~aborted
  /\ pc[t] = "locked"
  /\ calls_mutex = t
  /\ \E opaque \in EntryOpaques, fail \in 0..1 :
     \E r \in {GetKernelCall(opaque, kernel_calls, call_objects,
                             [K |-> kernels, objs |-> kernel_objects],
                             fail)} :
       /\ kernel_calls' = r.KC
       /\ call_objects' = r.cobjs
       /\ kernels' = r.C.K
       /\ kernel_objects' = r.C.objs
       /\ IF r.st = CheckFailed
          THEN /\ aborted' = TRUE
               /\ UNCHANGED <<calls_mutex, pc, ep_call, status_handle,
                              result>>
          ELSE /\ aborted' = FALSE
               /\ calls_mutex' = 0
               /\ ep_call' = [ep_call EXCEPT ![t] = r.call]
               /\ result' = [result EXCEPT ![t] = r.st]
               /\ status_handle' = [status_handle EXCEPT
                                      ![t] = StatusAfter(r.st)]
               /\ pc' = [pc EXCEPT ![t] = IF r.st = OkStatus THEN "launch"
                                          ELSE "returned"]
  /\ UNCHANGED <<devVars, kernelVars, tuneVars, kernels_mutex, gk,
                 gk_returned, gc_returned, parameters_, stream_arg,
                 buffers_arg, last_launch, did_launch, ctx_entry, mem_entry,
                 ncalls, kernel_entry, dec>>

\* Line 514 and lines 516-519: launch the call object and hand the status
\* over.
EntryLaunch(t) ==
  /\ ~aborted
  /\ pc[t] = "launch"
  /\ \E f \in LaunchFaults,
        buffers \in [1..CallArrays(call_objects[ep_call[t]]) -> Ptrs] :
     \E r \in {CallLaunch(call_objects[ep_call[t]], StreamOf(t), buffers,
                          DevOf(t), f)} :
       /\ ModulesBounded(r.D)
       /\ StoreDev(t, r.D)
       /\ stream_arg' = [stream_arg EXCEPT ![t] = StreamOf(t)]
       /\ buffers_arg' = [buffers_arg EXCEPT ![t] = buffers]
       /\ result' = [result EXCEPT ![t] = r.st]
       /\ status_handle' = [status_handle EXCEPT ![t] = StatusAfter(r.st)]
       /\ did_launch' = [did_launch EXCEPT ![t] = r.D.issued]
  /\ pc' = [pc EXCEPT ![t] = "returned"]
  /\ UNCHANGED <<shared_mem_bytes_, kernel_output, parameters_, last_launch,
                 ctx_entry, mem_entry, ncalls, configs_,
                 input_output_aliases_, restores, autotune_once_,
                 autotune_status_,
                 at, num_configs, autotune_runs, measured, did_autotune,
                 did_bench, observed, cacheVars, calls_mutex, ep_call,
                 kernel_entry, dec>>

InitEntry == LauncherIdle /\ CachesInit /\ EntryInit

NextEntry ==
  \E t \in Threads :
    \/ EntryLock(t)
    \/ EntryDecode(t)
    \/ EntryLaunch(t)
    \/ ReturnToCaller(t)

SpecEntry == InitEntry /\ [][NextEntry]_vars

\* C11: every invocation of the entry point returns, and when it has
\* returned the status handle holds the message of the error if decoding,
\* construction or launch failed and is untouched if they succeeded.
EntryStatusChannel ==
  /\ ~aborted
  /\ \A t \in Threads :
       pc[t] = "returned"
         => /\ (status_handle[t] # "untouched") <=> (result[t] # OkStatus)
            /\ result[t] # OkStatus => status_handle[t] = result[t].at

\* ------------------------------------------------------ Kernel::Launch
\* Kernels as GetKernel made them, with and without more than 48 KiB of
\* shared memory, and no launch in progress.
InitKernel ==
  /\ DeviceInit
  /\ KernelsInit
  /\ kernel_output = [k \in Kernels |-> 0]
  /\ parameters_ = <<>>
  /\ CallersInit
  /\ TuneInit(<<>>, <<>>)
  /\ CachesInit
  /\ EntryInit

\* A thread calls Kernel::Launch(stream, grid, params) (lines 83-91) on
\* the kernel that the threads share; GetFunctionForContext runs under the
\* kernel's mutex_.
DoKernelLaunch(t) ==
  /\ pc[t] = "idle"
  /\ ncalls[t] < MaxCalls
  /\ \E k \in {1}, stream \in Streams, f \in LaunchFaults :
     \E r \in {KernelLaunch(k, stream, <<>>, DevOf(t), f)} :
       /\ ModulesBounded(r.D)
       /\ StoreDev(t, r.D)
       /\ stream_arg' = [stream_arg EXCEPT ![t] = stream]
       /\ result' = [result EXCEPT ![t] = r.st]
       /\ last_launch' = [last_launch EXCEPT
                            ![t] = [st |-> r.st, ops |-> r.D.ops]]
       /\ did_launch' = [did_launch EXCEPT ![t] = r.D.issued]
       /\ kernel_entry' =
            [kernel_entry EXCEPT
               ![t] = [kernel |-> k, functions_ |-> functions_[k],
                       modules_ |-> modules_[k],
                       functions_ret |-> r.D.funcs[k],
                       modules_ret |-> r.D.mods[k]]]
  /\ pc' = [pc EXCEPT ![t] = "returned"]
  /\ UNCHANGED <<shared_mem_bytes_, kernel_output, parameters_, buffers_arg,
                 ctx_entry, mem_entry, ncalls, configs_,
                 input_output_aliases_, restores, autotune_once_,
                 autotune_status_,
                 at, num_configs, autotune_runs, measured, did_autotune,
                 did_bench, observed, cacheVars, calls_mutex, ep_call,
                 status_handle, dec>>

NextKernel ==
  \E t \in Threads :
    \/ DoKernelLaunch(t)
    \/ ReturnToCaller(t)

SpecKernel == InitKernel /\ [][NextKernel]_vars

\* The launch of thread t has returned an error of GetFunctionForContext.
GetFunctionFailed(t) ==
  /\ pc[t] = "returned"
  /\ result[t] # OkStatus
  /\ result[t].at \notin {"cuStreamGetCtx", "cuLaunchKernel"}

\* C12: when GetFunctionForContext has returned a failure, the kernel's
\* modules_ and functions_ are what they were when the call was entered.
GetFunctionFailureAtomic ==
  \A t \in Threads :
    GetFunctionFailed(t)
      => /\ kernel_entry[t].functions_ret = kernel_entry[t].functions_
         /\ kernel_entry[t].modules_ret = kernel_entry[t].modules_

\* C19: a kernel with more than 48 KiB of shared memory has a function in
\* functions_ for a context only if the opt-in set-up for that context was
\* completed, and a launch of a kernel that asks for more than the opt-in
\* limit of the context's device has failed without a driver launch,
\* whether it is the first on that context or a later one.
ShmemRejectionPersistent ==
  /\ \A k \in Kernels, c \in Contexts :
       shared_mem_bytes_[k] > kMaxStaticSharedMemBytes
         /\ functions_[k][c] # 0
         => c \in func_configured[k]
  /\ \A t \in Threads :
       pc[t] = "returned" /\ kernel_entry[t].kernel # 0
         /\ shared_mem_bytes_[kernel_entry[t].kernel]
              > SharedOptin(StreamCtx(stream_arg[t]))
         => result[t] # OkStatus /\ ~did_launch[t]

\* ------------------------------------------ claims on the restore loop
\* C13: the restore loop issues a copy for an alias triple only if the
\* triple's buffers were passed as one pointer, every copy reads a saved
\* vector of exactly size bytes, and when autotune has succeeded every
\* triple whose buffers were one pointer got its copy.
RestoreCoversSaved ==
  /\ \A i \in 1..Len(restores) :
       /\ restores[i].aliased
       /\ restores[i].snapshot = restores[i].size
  /\ (autotune_once_ = "done" /\ autotune_status_ = OkStatus
        /\ num_configs > 1)
       => \A t \in Threads : \A j \in SavedAliases(buffers_arg[t]) :
            \E i \in 1..Len(restores) : restores[i].alias = j

\* ---------------------------------------------- claims on Benchmark
\* C14: whenever a benchmark has returned, by whichever path, every event
\* it created has been destroyed.
BenchmarkEventsReleased == events_live = 0

\* ------------------------------------- claims on the configs after the latch
\* C15 as stated: once the call_once flag is done, whether the autotune
\* succeeded, failed part-way or was skipped, configs_ has exactly one
\* element.
PostLatchSingleConfigAsStated ==
  autotune_once_ = "done" => Len(configs_) = 1

\* C15: once the call_once flag is done with an ok status (autotune
\* succeeded or was skipped), configs_ has exactly one element; and once
\* the flag is done, whatever the status, configs_ is never modified again.
PostLatchSingleConfig ==
  /\ [](autotune_once_ = "done" /\ autotune_status_ = OkStatus
          => Len(configs_) = 1)
  /\ [][autotune_once_ = "done" => configs_' = configs_]_vars

\* Autotune over several configs succeeded, one config is left, and a later
\* launch of the call has returned.
PostLatchSingleConfigWitness ==
  /\ autotune_once_ = "done"
  /\ autotune_status_ = OkStatus
  /\ num_configs > 1
  /\ Len(configs_) = 1
  /\ \E t \in Threads :
       pc[t] = "returned" /\ ~did_autotune[t] /\ did_launch[t]

RunLengths == {0, 1, 2, 11, 15, 25, 45}

\* Compressed streams: none, one or two runs, whole or cut short.
DecodeOpaques ==
  {<<>>} \cup {<<n>> : n \in RunLengths}
    \cup {<<n, b>> : n \in RunLengths, b \in 1..MaxByte}
    \cup {<<n, b, c>> : n \in RunLengths, b \in 1..MaxByte, c \in {1}}
    \cup {<<n, b, k, c>> : n \in RunLengths, b \in 1..MaxByte,
                           k \in RunLengths, c \in 1..MaxByte}

\* The stream is whole: not empty and not cut short.
ValidStream(opaque) == Len(opaque) > 0 /\ Len(opaque) % 2 = 0

\* 2 to the power n.
RECURSIVE Pow2(_)
Pow2(n) == IF n = 0 THEN 1 ELSE 2 * Pow2(n - 1)

\* Line 467: GetKernelCall missed the map and sets dest_len.
DecodeStart ==
  /\ dec.pc = "idle"
  /\ \E opaque \in DecodeOpaques :
       dec' = [DecIdle EXCEPT !.pc = "loop", !.opaque = opaque,
                              !.dest_len = 5 * Len(opaque)]
  /\ UNCHANGED <<devVars, kernelVars, callVars, tuneVars, cacheVars,
                 calls_mutex, ep_call, status_handle, kernel_entry>>

\* One iteration of the loop of lines 468-482.
DecodeStep ==
  /\ dec.pc = "loop"
  /\ dec.tries < MaxTries
  /\ \E r \in {Uncompress(dec.opaque, dec.dest_len)} :
       dec' = IF r.ret = "Z_OK"
              THEN [dec EXCEPT !.pc = "done", !.dest_len = Len(r.out),
                               !.serialized = r.out]
              ELSE IF r.ret = "Z_BUF_ERROR"
              THEN [dec EXCEPT !.dest_len = DoubleDestLen(@),
                               !.tries = @ + 1]
              ELSE [dec EXCEPT
                      !.pc = "done",
                      !.st = InvalidArgumentError(
                               "Failed to uncompress opaque data.")]
  /\ UNCHANGED <<devVars, kernelVars, callVars, tuneVars, cacheVars,
                 calls_mutex, ep_call, status_handle, kernel_entry>>

InitDecode == LauncherIdle /\ CachesInit /\ EntryInit

NextDecode == DecodeStart \/ DecodeStep

SpecDecode == InitDecode /\ [][NextDecode]_vars

\* The thread that runs the loop keeps running.
SpecDecodeFair == SpecDecode /\ WF_vars(NextDecode)

\* In the loop the buffer is 5 x len(opaque) doubled once per retry; the
\* loop is left with the bytes of a whole stream, the buffer at least as
\* long as they are, and with InvalidArgument for any other stream.
DecodeSafety ==
  /\ dec.pc = "loop"
       => dec.dest_len = 5 * Len(dec.opaque) * Pow2(dec.tries)
  /\ dec.pc = "done"
       => IF ValidStream(dec.opaque)
          THEN /\ dec.st = OkStatus
               /\ dec.serialized = Inflate(dec.opaque)
               /\ 5 * Len(dec.opaque) * Pow2(dec.tries)
                    >= Len(dec.serialized)
          ELSE /\ dec.st.code = "InvalidArgument"
               /\ dec.serialized = <<>>

\* C17: the uncompress loop ends after finitely many retries: with the
\* decompressed bytes of a whole stream, however long they are, read into
\* a buffer that is large enough, and with InvalidArgument for a stream
\* that fails in any other way than by a buffer too small.
DecompressTerminates == []DecodeSafety /\ <>(dec.pc = "done")

\* A stream whose output is longer than five times its length was decoded
\* after more than one retry.
DecompressTerminatesWitness ==
  /\ dec.pc = "done"
  /\ dec.st = OkStatus
  /\ dec.tries >= 2
  /\ Len(dec.serialized) > 5 * Len(dec.opaque)

\* --------------------------------- claims on the insert of GetKernelCall
\* An opaque that decompresses to a descriptor with a call in it.
ValidOpaque(opaque) ==
  /\ Decompress(opaque).st = OkStatus
  /\ ParseFromString(Decompress(opaque).serialized).ok
  /\ ParseFromString(Decompress(opaque).serialized).variant # "none"

\* C18: as long as every GetKernelCall so far was made with a valid opaque,
\* repeats included, the insert after a lookup miss has succeeded in each
\* of them: no call ended in the CHECK of line 503.
CallCacheInsertSucceeds ==
  (\A i \in 1..Len(gc_returned) : ValidOpaque(gc_returned[i].opaque))
    => \A i \in 1..Len(gc_returned) : gc_returned[i].st # CheckFailed

\* ----------------------------------------- claims on locks and progress
\* A thread inside the entry point keeps running, and the driver calls it
\* makes return.
SpecEntryFair ==
  /\ SpecEntry
  /\ \A t \in Threads :
       WF_vars(EntryDecode(t) \/ EntryLaunch(t) \/ ReturnToCaller(t))

\* The locks a thread holds are taken in one order: the mutex of the kernel
\* map only under the mutex of the call map, and neither while the call is
\* launched.
LockOrder ==
  /\ kernels_mutex = 0
  /\ \A t \in Threads :
       /\ calls_mutex = t => pc[t] = "locked"
       /\ pc[t] \in {"launch", "returned"} => calls_mutex # t

\* C20: locks are taken in one fixed order, no thread waits for ever, and
\* every entry-point call that has taken the mutex of the call map returns.
EntryCallsReturn ==
  /\ []LockOrder
  /\ \A t \in Threads : (pc[t] = "locked") ~> (pc[t] = "returned")

\* ------------------------- claims on the effects of a rejected launch
\* The launch of thread t has returned the alignment error of line 263.
AlignmentRejected(t) ==
  /\ pc[t] = "returned"
  /\ result[t] = InvalidArgumentError("not divisible by 16")

\* C21: when KernelCall::Launch has returned InvalidArgument for a
\* misaligned ArrayParameter, no memset was enqueued for any parameter of
\* the call, those before the misaligned one included, and device memory
\* is what it was when the call was entered.
AlignmentFailureNoSideEffect ==
  \A t \in Threads :
    AlignmentRejected(t)
      => /\ \A n \in 1..Len(last_launch[t].ops) :
              last_launch[t].ops[n].op # "memset"
         /\ mem = mem_entry[t]

====
